---- MODULE Spec2Model ----
(***************************************************************************)
(* A model of src/codecs/music_wav.c: the streaming WAV/AIFF decoder.      *)
(*                                                                         *)
(*   - the playback state machine (WAV_Play, WAV_GetSome, WAV_Seek, ...)   *)
(*     over the WAV_Music structure, the byte source's cursor and the      *)
(*     output audio stream;                                                *)
(*   - construction (WAV_CreateFromRW, LoadWAVMusic, LoadAIFFMusic and     *)
(*     the chunk parsers), one step per chunk record.                      *)
(*                                                                         *)
(* The byte source is an oracle: a read or a seek succeeds or fails as     *)
(* the step's input says, and the chunk records of a container are drawn   *)
(* as they are read.                                                       *)
(***************************************************************************)
EXTENDS Integers, Sequences, FiniteSets, TLC

VARIABLES
    music,      \* the WAV_Music structure
    src,        \* the byte source (SDL_RWops): its cursor and its length
    stream,     \* bytes waiting in the output queue (SDL_AudioStream)
    call,       \* the last call of the music interface
    ret,        \* the return value of the last call
    done,       \* the *done flag of the last WAV_GetSome call
    hist,       \* history of one playback run: what was asked, what was rewound
    pc,         \* where construction stands
    local,      \* the locals of LoadWAVMusic / LoadAIFFMusic, and what was read
    heap,       \* the allocations that are live
    made,       \* every allocation made so far
    result,     \* what WAV_CreateFromRW returned
    buffer      \* the bytes of music->buffer while a decode strategy expands them

vars == <<music, src, stream, call, ret, done, hist, pc, local, heap, made, result,
          buffer>>

playvars == <<music, src, stream, call, ret, done>>
loadvars == <<pc, local, heap, made, result>>

----------------------------------------------------------------------------
(* Constants of the source. *)

PCM_CODE == 1
ADPCM_CODE == 2
FLOAT_CODE == 3
ALAW_CODE == 6
uLAW_CODE == 7
EXT_CODE == 65534
SAMPLES == 4096
FMT_SIZE == 16
SMPL_SIZE == 60
MIX_MAX_VOLUME == 128

(* Bounds of the model. *)

MaxPlay == 2        \* WAV_Play is called with play_count in -1 .. MaxPlay
MaxCount == 2       \* a sample loop's play_count is in 0 .. MaxCount
PlayFreq == 2       \* the frequency of the decoders that are played
SrcTail == 8        \* bytes that may follow the data region in the source
MaxFile == 116      \* the length of the container that is parsed, in bytes
MaxLoops == 1       \* the forward loops the smpl chunks of a container add
MaxChunks == 3      \* the chunk records of a container before its last
MaxLoad == 40       \* the length of a container that is read to its end, in bytes

----------------------------------------------------------------------------
(* Arithmetic of C. *)

Min(a, b) == IF a < b THEN a ELSE b
Max(a, b) == IF a < b THEN b ELSE a

\* a / b and a % b on ints, b > 0: the quotient is truncated toward zero
CDiv(a, b) == IF a >= 0 THEN a \div b ELSE -((-a) \div b)
CMod(a, b) == a - b * CDiv(a, b)

\* F applied to the value of v, which is computed once
Bind(v, F(_)) == CHOOSE r \in { F(x) : x \in {v} } : TRUE

\* SDL_AUDIO_BITSIZE(format)
SDL_AUDIO_BITSIZE(format) ==
    CASE format \in {"AUDIO_U8", "AUDIO_S8"} -> 8
      [] format \in {"AUDIO_S16", "AUDIO_S16LSB", "AUDIO_S16MSB"} -> 16
      [] format \in {"AUDIO_S32", "AUDIO_S32LSB", "AUDIO_S32MSB",
                     "AUDIO_F32", "AUDIO_F32MSB"} -> 32
      [] OTHER -> 0

----------------------------------------------------------------------------
(* The sample decoders: G.711 expansion and the 24-bit sign extension. *)

SIGN_BIT == 128
QUANT_MASK == 15
SEG_SHIFT == 4
SEG_MASK == 112
BIAS == 132

RECURSIVE Pow2(_)
Pow2(n) == IF n = 0 THEN 1 ELSE 2 * Pow2(n - 1)

\* a & mask on bytes, for the masks of the source: each is a run of set bits
BitAnd(a, mask) ==
    CASE mask = SIGN_BIT -> (a \div 128) * 128
      [] mask = QUANT_MASK -> a % 16
      [] mask = SEG_MASK -> ((a \div 16) % 8) * 16

\* a ^ b on bytes
RECURSIVE XorBits(_, _, _)
XorBits(a, b, n) ==
    IF n = 0 THEN 0
    ELSE ((a + b) % 2) + 2 * XorBits(a \div 2, b \div 2, n - 1)
BitXor(a, b) == XorBits(a, b, 8)

\* the value an int has once it is stored in a Sint16
Sint16(x) == ((x + 32768) % 65536) - 32768

\* ALAW_To_PCM16 with the half step of segment 0 left out
ALAW_To_PCM16NoHalfStep(a_val) ==
    LET a == BitXor(a_val, 85)
        t == Sint16(BitAnd(a, QUANT_MASK) * 16)
        seg == BitAnd(a, SEG_MASK) \div Pow2(SEG_SHIFT)
        v == CASE seg = 0 -> t
               [] seg = 1 -> Sint16(t + 264)
               [] OTHER -> Sint16(Sint16(t + 264) * Pow2(seg - 1))
    IN  Sint16(IF BitAnd(a, SIGN_BIT) # 0 THEN v ELSE -v)

ALAW_To_PCM16(a_val) ==
    LET a == BitXor(a_val, 85)
        t == Sint16(BitAnd(a, QUANT_MASK) * 16)
        seg == BitAnd(a, SEG_MASK) \div Pow2(SEG_SHIFT)
        v == CASE seg = 0 -> Sint16(t + 8)
               [] seg = 1 -> Sint16(t + 264)
               [] OTHER -> Sint16(Sint16(t + 264) * Pow2(seg - 1))
    IN  Sint16(IF BitAnd(a, SIGN_BIT) # 0 THEN v ELSE -v)

\* uLAW_To_PCM16 with the bias left in the result
uLAW_To_PCM16Biased(u_val) ==
    LET u == 255 - u_val
        t == Sint16(Sint16(BitAnd(u, QUANT_MASK) * 8) + BIAS)
        shifted == Sint16(t * Pow2(BitAnd(u, SEG_MASK) \div Pow2(SEG_SHIFT)))
    IN  Sint16(IF BitAnd(u, SIGN_BIT) # 0 THEN -shifted ELSE shifted)

uLAW_To_PCM16(u_val) ==
    LET u == 255 - u_val
        t == Sint16(Sint16(BitAnd(u, QUANT_MASK) * 8) + BIAS)
        shifted == Sint16(t * Pow2(BitAnd(u, SEG_MASK) \div Pow2(SEG_SHIFT)))
    IN  Sint16(IF BitAnd(u, SIGN_BIT) # 0 THEN BIAS - shifted ELSE shifted - BIAS)

\* sign_extend_24_32.  A Uint32 is held as its four bytes, the lowest first;
\* the result is the int whose 32-bit two's complement pattern is returned.
sign_extend_24_32(x) ==
    LET m == Pow2(24 - 1)
        low == x[2] + 256 * x[3] + 65536 * x[4]
        flipped == IF low >= m THEN low - m ELSE low + m
    IN  flipped - m

\* (v >> 8k) & 0xFF of the Uint32 whose pattern the int v has, |v| < 2^24
Uint32Byte(v, k) ==
    IF k = 3 THEN (IF v < 0 THEN 255 ELSE (v \div 16777216) % 256)
    ELSE ((IF v < 0 THEN v + 16777216 ELSE v) \div Pow2(8 * k)) % 256

\* music->buffer outside a decode strategy's expansion loop
NoBuffer ==
    [ decode |-> "none", pc |-> "idle", data |-> <<>>, bytes |-> <<>>,
      samplesize |-> 0, length |-> 0, i |-> 0, o |-> 0,
      written |-> {}, clobbered |-> FALSE, beyond |-> FALSE, ret |-> 0 ]

----------------------------------------------------------------------------
(* The WAV_Music structure as SDL_calloc and WAV_CreateFromRW leave it. *)

NewMusic ==
    [ volume |-> MIX_MAX_VOLUME,
      play_count |-> 0,
      start |-> 0,
      stop |-> 0,
      samplesize |-> 0,
      spec |-> [format |-> "0", channels |-> 0, freq |-> 0, size |-> 0],
      buffer |-> FALSE,
      stream |-> FALSE,
      loops |-> <<>>,
      tags |-> {},
      encoding |-> PCM_CODE,
      decode |-> "fetch_pcm" ]

----------------------------------------------------------------------------
(* The byte source. *)

\* SDL_RWseek(src, offset, RW_SEEK_SET): the new position, or -1 and the
\* cursor stays
RWseek(s, offset, ok) ==
    [ src |-> IF ok THEN [s EXCEPT !.pos = offset] ELSE s,
      ret |-> IF ok THEN offset ELSE -1 ]

\* SDL_RWread(src, buffer, 1, (size_t)n): the bytes delivered. A failing read
\* delivers none; a negative n is a huge size_t, and the source delivers all
\* it has left.
RWread(s, n, ok) ==
    LET left == Max(0, s.len - s.pos)
        got  == IF ~ok THEN 0 ELSE IF n < 0 THEN left ELSE Min(n, left)
    IN  [ src |-> [s EXCEPT !.pos = s.pos + got], got |-> got ]

----------------------------------------------------------------------------
(* WAV_Play *)

\* the assignment of WAV_Play's loop the other way round
ResetLoopReversed(loop) ==
    [loop EXCEPT !.active = TRUE, !.initial_play_count = loop.current_play_count]

ResetLoop(loop) ==
    [loop EXCEPT !.active = TRUE, !.current_play_count = loop.initial_play_count]

\* WAV_Play without its seek
WAV_PlayInPlace(m, s, play_count, skok) ==
    [ music |-> [m EXCEPT !.loops = [i \in DOMAIN m.loops |-> ResetLoop(m.loops[i])],
                          !.play_count = play_count],
      src   |-> s,
      ret   |-> 0 ]

WAV_Play(m, s, play_count, skok) ==
    LET sk == RWseek(s, m.start, skok)
    IN  [ music |-> [m EXCEPT !.loops = [i \in DOMAIN m.loops |-> ResetLoop(m.loops[i])],
                              !.play_count = play_count],
          src   |-> sk.src,
          ret   |-> IF sk.ret < 0 THEN -1 ELSE 0 ]

----------------------------------------------------------------------------
(* The decode strategies: what they read and what they return.  The bytes  *)
(* themselves are not kept.                                                *)

fetch_pcm(m, s, length, rdok) ==
    LET rd == RWread(s, length, rdok)
    IN  [ src |-> rd.src, amount |-> rd.got ]

\* the length the strategies keep of what was read: whole frames
WholeFrames(m, length) ==
    IF CMod(length, m.samplesize) # 0 THEN length - CMod(length, m.samplesize) ELSE length

fetch_pcm24be(m, s, length, rdok) ==
    LET rd == RWread(s, CDiv(length, 4) * 3, rdok)
        len == WholeFrames(m, rd.got)
    IN  [ src |-> rd.src, amount |-> CDiv(len - m.samplesize, 3) * 4 ]

fetch_xlaw(m, s, length, rdok) ==
    LET rd == RWread(s, CDiv(length, 2), rdok)
        len == WholeFrames(m, rd.got)
    IN  [ src |-> rd.src, amount |-> len * 2 ]

Decode(m, s, length, rdok) ==
    CASE m.decode = "fetch_pcm" -> fetch_pcm(m, s, length, rdok)
      [] m.decode = "fetch_pcm24be" -> fetch_pcm24be(m, s, length, rdok)
      [] m.decode \in {"fetch_ulaw", "fetch_alaw"} -> fetch_xlaw(m, s, length, rdok)

----------------------------------------------------------------------------
(* WAV_GetSome *)

\* bytes of one decoded frame, as WAV_GetSome computes it for the loop windows
BytesPerSample(m) == (SDL_AUDIO_BITSIZE(m.spec.format) \div 8) * m.spec.channels

\* The products are Uint32 in the source; the frames and frame sizes of this
\* model keep them far below 2^32, where they do not wrap.
LoopStart(m, loop) == m.start + loop.start * BytesPerSample(m)
LoopStop(m, loop) == m.start + (loop.stop + 1) * BytesPerSample(m)

InLoop(m, loop, pos) ==
    loop.active /\ pos >= LoopStart(m, loop) /\ pos < LoopStop(m, loop)

\* the first active loop whose window holds pos; 0 when there is none
FindLoop(m, pos) ==
    LET hits == {i \in DOMAIN m.loops : InLoop(m, m.loops[i], pos)}
    IN  IF hits = {} THEN 0 ELSE CHOOSE i \in hits : \A j \in hits : i <= j

\* SDL_AudioStreamGet: the bytes the queue hands out
StreamGet(q, bytes) == Min(q, bytes)

\* a variant of the end test that would also end an endless playback
EndOfStreamNotPositive(m) == m.play_count <= 0

\* "All done"
EndOfStream(m) == m.play_count = 0

\* what is asked of the decode strategy
FetchAmount(m, pos, stop) ==
    IF stop - pos < m.spec.size THEN stop - pos ELSE m.spec.size

\* the cursor reached the stop of the loop it was in
LoopBoundary(m, s, li, loop_stop, skok) ==
    IF li # 0 /\ s.pos >= loop_stop
    THEN IF m.loops[li].current_play_count = 1
         THEN [ music |-> [m EXCEPT !.loops[li].active = FALSE],
                src |-> s, looped |-> FALSE ]
         ELSE [ music |-> IF m.loops[li].current_play_count > 0
                          THEN [m EXCEPT !.loops[li].current_play_count = @ - 1]
                          ELSE m,
                src |-> RWseek(s, LoopStart(m, m.loops[li]), skok).src,
                looped |-> TRUE ]
    ELSE [ music |-> m, src |-> s, looped |-> FALSE ]

\* variants of the count of a restart: one that never counts down, one that
\* ends an endless playback at the first restart
NextPlayCountKept(play_count) == IF play_count > 0 THEN play_count ELSE -1
NextPlayCountToZero(play_count) == IF play_count > 0 THEN play_count - 1 ELSE 0

\* the play count a restart of the region is given
NextPlayCount(play_count) == IF play_count > 0 THEN play_count - 1 ELSE -1

\* the region boundary without the test of looped
RegionBoundaryAlways(m, s, looped, at_end, skok) ==
    IF at_end \/ s.pos >= m.stop
    THEN IF m.play_count = 1
         THEN [ music |-> [m EXCEPT !.play_count = 0], src |-> s, ret |-> 0,
                restarted |-> FALSE, finished |-> TRUE ]
         ELSE LET p == WAV_Play(m, s, NextPlayCount(m.play_count), skok)
              IN  [ music |-> p.music, src |-> p.src, ret |-> p.ret,
                    restarted |-> TRUE, finished |-> FALSE ]
    ELSE [ music |-> m, src |-> s, ret |-> 0, restarted |-> FALSE, finished |-> FALSE ]

\* the end of the region, or nothing decoded
RegionBoundary(m, s, looped, at_end, skok) ==
    IF ~looped /\ (at_end \/ s.pos >= m.stop)
    THEN IF m.play_count = 1
         THEN [ music |-> [m EXCEPT !.play_count = 0], src |-> s, ret |-> 0,
                restarted |-> FALSE, finished |-> TRUE ]
         ELSE LET p == WAV_Play(m, s, NextPlayCount(m.play_count), skok)
              IN  [ music |-> p.music, src |-> p.src, ret |-> p.ret,
                    restarted |-> TRUE, finished |-> FALSE ]
    ELSE [ music |-> m, src |-> s, ret |-> 0, restarted |-> FALSE, finished |-> FALSE ]

\* One call: the structure, the source and the queue after it, what it
\* returns, and what happened in it.
WAV_GetSome(m, s, q, bytes, rdok, putok, skok) ==
    LET filled == StreamGet(q, bytes)
        idle == [ music |-> m, src |-> s, stream |-> q, ret |-> 0, done |-> FALSE,
                  decoded |-> FALSE, amount |-> 0, tell |-> -1, loop |-> 0,
                  looped |-> FALSE, restarted |-> FALSE, finished |-> FALSE ]
        pos == s.pos
        li == FindLoop(m, pos)
        stop == IF li = 0 THEN m.stop ELSE LoopStop(m, m.loops[li])
    IN  IF filled # 0
        THEN [idle EXCEPT !.stream = q - filled, !.ret = filled]
        ELSE IF EndOfStream(m)
        THEN [idle EXCEPT !.done = TRUE]
        ELSE
        Bind(Decode(m, s, FetchAmount(m, pos, stop), rdok), LAMBDA dec :
            IF dec.amount > 0 /\ ~putok
            THEN [idle EXCEPT !.src = dec.src, !.ret = -1, !.decoded = TRUE,
                              !.amount = dec.amount, !.tell = dec.src.pos,
                              !.loop = li]
            ELSE
            Bind(LoopBoundary(m, dec.src, li, stop, skok), LAMBDA lp :
            Bind(RegionBoundary(lp.music, lp.src, lp.looped, dec.amount <= 0, skok),
                 LAMBDA rg :
                 [ music |-> rg.music, src |-> rg.src,
                   stream |-> q + Max(0, dec.amount),
                   ret |-> rg.ret, done |-> FALSE,
                   decoded |-> TRUE, amount |-> dec.amount,
                   tell |-> dec.src.pos, loop |-> li,
                   looped |-> lp.looped, restarted |-> rg.restarted,
                   finished |-> rg.finished ])))

----------------------------------------------------------------------------
(* WAV_Seek, WAV_Tell, WAV_Length.  position is in whole seconds; Tell and *)
(* Length return the quotient of the pair.                                 *)

SeekTarget(m, position) == m.start + position * m.spec.freq * m.samplesize

\* a variant of WAV_Seek that compares the target with the end of the source
WAV_SeekWithinSource(m, s, position, skok) ==
    IF SeekTarget(m, position) > s.len
    THEN [ src |-> s, ret |-> -1 ]
    ELSE [ src |-> RWseek(s, SeekTarget(m, position), skok).src, ret |-> 0 ]

WAV_Seek(m, s, position, skok) ==
    IF SeekTarget(m, position) > m.stop
    THEN [ src |-> s, ret |-> -1 ]
    ELSE [ src |-> RWseek(s, SeekTarget(m, position), skok).src, ret |-> 0 ]

WAV_Tell(m, s) == <<s.pos - m.start, m.spec.freq * m.samplesize>>

WAV_Length(m) == <<m.stop - m.start, m.spec.freq * m.samplesize>>

----------------------------------------------------------------------------
(* The fmt chunk: ParseFMT.  format holds the WaveFMT fields read.         *)

\* switch (wave->encoding): the decode strategy, "none" for the default case
FMTDecode(encoding) ==
    CASE encoding \in {PCM_CODE, FLOAT_CODE} -> "fetch_pcm"
      [] encoding = uLAW_CODE -> "fetch_ulaw"
      [] encoding = ALAW_CODE -> "fetch_alaw"
      [] OTHER -> "none"

\* a variant of the switch that knows 24-bit PCM
FMTFormatWith24(encoding, bitspersample) ==
    CASE bitspersample = 8 /\ encoding = PCM_CODE -> "AUDIO_U8"
      [] bitspersample = 8 /\ encoding \in {ALAW_CODE, uLAW_CODE} -> "AUDIO_S16"
      [] bitspersample = 16 /\ encoding = PCM_CODE -> "AUDIO_S16"
      [] bitspersample \in {24, 32} /\ encoding = PCM_CODE -> "AUDIO_S32"
      [] bitspersample = 32 /\ encoding = FLOAT_CODE -> "AUDIO_F32"
      [] OTHER -> "none"

\* switch (bitsamplerate): the sample format, "none" for unknown_length
FMTFormat(encoding, bitspersample) ==
    CASE bitspersample = 8 /\ encoding = PCM_CODE -> "AUDIO_U8"
      [] bitspersample = 8 /\ encoding \in {ALAW_CODE, uLAW_CODE} -> "AUDIO_S16"
      [] bitspersample = 16 /\ encoding = PCM_CODE -> "AUDIO_S16"
      [] bitspersample = 32 /\ encoding = PCM_CODE -> "AUDIO_S32"
      [] bitspersample = 32 /\ encoding = FLOAT_CODE -> "AUDIO_F32"
      [] OTHER -> "none"

\* spec->size: SDL_AUDIO_BITSIZE(format) / 8 * channels * samples
SpecSize(format, channels) == (SDL_AUDIO_BITSIZE(format) \div 8) * channels * SAMPLES

\* loaded: what ParseFMT returns; wave: the structure after it; scratch: the
\* chunk buffer was allocated; freed: and was freed again
ParseFMT(wave, chunk_length, format, memok, rdok) ==
    LET no(w, scratch, freed) ==
            [loaded |-> FALSE, wave |-> w, scratch |-> scratch, freed |-> freed]
        w1 == [wave EXCEPT !.encoding = format.encoding]
        w2 == [w1 EXCEPT !.decode = FMTDecode(format.encoding),
                         !.spec.freq = format.frequency]
        fm == FMTFormat(format.encoding, format.bitspersample)
        ch == format.channels % 256
        w3 == [w2 EXCEPT !.spec.format = fm,
                         !.spec.channels = ch,
                         !.samplesize = ch * (format.bitspersample \div 8),
                         !.spec.size = SpecSize(fm, ch)]
    IN  IF chunk_length < FMT_SIZE THEN no(wave, FALSE, FALSE)
        ELSE IF ~memok THEN no(wave, FALSE, FALSE)
        ELSE IF ~rdok THEN no(wave, TRUE, FALSE)
        ELSE IF FMTDecode(format.encoding) = "none" THEN no(w1, TRUE, TRUE)
        ELSE IF fm = "none" THEN no(w2, TRUE, TRUE)
        ELSE [loaded |-> TRUE, wave |-> w3, scratch |-> TRUE, freed |-> TRUE]

(* The data chunk: ParseDATA, at cursor pos. *)
ParseDATA(wave, pos, chunk_length) ==
    [wave EXCEPT !.start = pos, !.stop = pos + chunk_length]

(* AddLoopPoint: the active flag of the new record is not set; it holds    *)
(* what the memory held.                                                   *)
AddLoopPoint(wave, play_count, start, stop, junk) ==
    [wave EXCEPT !.loops = Append(@,
        [ active |-> junk, start |-> start, stop |-> stop,
          initial_play_count |-> play_count, current_play_count |-> play_count ])]

\* the loop of ParseSMPL over the records of the chunk: the forward ones
\* are added
RECURSIVE AddSampleLoops(_, _)
AddSampleLoops(wave, records) ==
    IF records = <<>> THEN wave
    ELSE LET r == Head(records)
         IN  AddSampleLoops(
                IF r.type = 0
                THEN AddLoopPoint(wave, r.play_count, r.start, r.end, r.junk)
                ELSE wave,
                Tail(records))

----------------------------------------------------------------------------
(* The tail of LoadAIFFMusic: the region and the format table.  L holds    *)
(* the locals the chunk loop filled.                                       *)

\* switch (samplesize): the sample format, "none" for unsupported_format
AIFFFormat(samplesize, is_AIFC, compressionType) ==
    CASE samplesize = 8 /\ ~is_AIFC -> "AUDIO_S8"
      [] samplesize = 8 /\ is_AIFC /\ compressionType = "raw " -> "AUDIO_U8"
      [] samplesize = 8 /\ is_AIFC /\ compressionType = "sowt" -> "AUDIO_S8"
      [] samplesize = 8 /\ is_AIFC /\ compressionType \in {"ulaw", "alaw"} -> "AUDIO_S16LSB"
      [] samplesize = 16 /\ ~is_AIFC -> "AUDIO_S16MSB"
      [] samplesize = 16 /\ is_AIFC /\ compressionType = "sowt" -> "AUDIO_S16LSB"
      [] samplesize = 16 /\ is_AIFC /\ compressionType = "NONE" -> "AUDIO_S16MSB"
      [] samplesize = 24 /\ ~is_AIFC -> "AUDIO_S32MSB"
      [] samplesize = 24 /\ is_AIFC /\ compressionType = "sowt" -> "AUDIO_S32LSB"
      [] samplesize = 24 /\ is_AIFC /\ compressionType = "NONE" -> "AUDIO_S32MSB"
      [] samplesize = 32 /\ ~is_AIFC -> "AUDIO_S32MSB"
      [] samplesize = 32 /\ is_AIFC /\ compressionType = "sowt" -> "AUDIO_S32LSB"
      [] samplesize = 32 /\ is_AIFC /\ compressionType = "NONE" -> "AUDIO_S32MSB"
      [] samplesize = 32 /\ is_AIFC /\ compressionType = "fl32" -> "AUDIO_F32MSB"
      [] OTHER -> "none"

\* the decode strategy the switch leaves: the default of WAV_CreateFromRW
\* unless a case sets another
AIFFDecode(wave, samplesize, is_AIFC, compressionType) ==
    CASE samplesize = 8 /\ is_AIFC /\ compressionType = "ulaw" -> "fetch_ulaw"
      [] samplesize = 8 /\ is_AIFC /\ compressionType = "alaw" -> "fetch_alaw"
      [] samplesize = 24 -> "fetch_pcm24be"
      [] OTHER -> wave.decode

AIFFEncoding(wave, samplesize, is_AIFC, compressionType) ==
    CASE samplesize = 8 /\ is_AIFC /\ compressionType = "ulaw" -> uLAW_CODE
      [] samplesize = 8 /\ is_AIFC /\ compressionType = "alaw" -> ALAW_CODE
      [] samplesize = 24 -> PCM_CODE
      [] OTHER -> wave.encoding

AIFFFinish(wave, L) ==
    LET bytes == L.samplesize \div 8
        fm == AIFFFormat(L.samplesize, L.is_AIFC, L.compressionType)
        ch == L.channels % 256
        w1 == [wave EXCEPT
                 !.samplesize = L.channels * bytes,
                 !.stop = wave.start + L.channels * L.numsamples * bytes,
                 !.spec = [format |-> "0", channels |-> 0, freq |-> L.frequency, size |-> 0],
                 !.encoding = AIFFEncoding(wave, L.samplesize, L.is_AIFC, L.compressionType),
                 !.decode = AIFFDecode(wave, L.samplesize, L.is_AIFC, L.compressionType)]
        w2 == [w1 EXCEPT !.spec.format = fm, !.spec.channels = ch,
                         !.spec.size = SpecSize(fm, ch)]
    IN  IF ~L.found_SSND \/ ~L.found_COMM THEN [loaded |-> FALSE, wave |-> wave]
        ELSE IF fm = "none" THEN [loaded |-> FALSE, wave |-> w1]
        ELSE [loaded |-> TRUE, wave |-> w2]

----------------------------------------------------------------------------
(* The decoders that are played: each is what construction makes of a      *)
(* container with these chunks.                                            *)

\* the WaveFMT fields of the fmt chunk
PlayFormats ==
    { [encoding |-> PCM_CODE,  channels |-> 1, frequency |-> PlayFreq, bitspersample |-> 8],
      [encoding |-> uLAW_CODE, channels |-> 1, frequency |-> PlayFreq, bitspersample |-> 8] }

\* a forward sample loop of the smpl chunk: first and last frame, play
\* count.  The active flag AddLoopPoint leaves unset is read by nothing
\* before WAV_Play sets it; here it holds what SDL_calloc would have left.
SampleLoop(w, n) ==
    [type |-> 0, start |-> w[1], end |-> w[2], play_count |-> n, junk |-> FALSE]

\* one loop: at the start of the region, inside it, longer than a buffer,
\* empty
LoopWindows == { <<0, 0>>, <<0, 1>>, <<1, 1>>, <<1, SAMPLES>>, <<2, 0>> }

\* two loops: one after the other, the second inside the first, the first
\* inside the second
WindowPairs == { <<<<0, 0>>, <<1, 1>>>>, <<<<0, 1>>, <<1, 1>>>>, <<<<1, 1>>, <<0, SAMPLES>>>> }
CountPairs == { <<MaxCount, MaxCount>>, <<1, MaxCount>>, <<MaxCount, 0>> }

LoopRecords ==
    {<<>>} \cup { <<SampleLoop(w, n)>> : w \in LoopWindows, n \in 0 .. MaxCount }
           \cup { <<SampleLoop(w[1], n[1]), SampleLoop(w[2], n[2])>> :
                    w \in WindowPairs, n \in CountPairs }

\* where the data chunk's payload starts: after the RIFF header, the fmt
\* chunk and the data chunk's header
DataOffset == 44

\* the length of the data chunk, in bytes: a byte, three frames, more than a
\* buffer
DataLengths(w) == { 1, 3 * w.samplesize, w.spec.size + 2 * w.samplesize }

WavDecoders ==
    UNION { { [ AddSampleLoops(ParseDATA(w, DataOffset, n), l)
                  EXCEPT !.buffer = TRUE, !.stream = TRUE ] :
                n \in DataLengths(w), l \in LoopRecords } :
            w \in { ParseFMT(NewMusic, FMT_SIZE, f, TRUE, TRUE).wave : f \in PlayFormats } }

\* what the chunk loop of LoadAIFFMusic leaves in its locals
PlayAIFFs ==
    { [ found_SSND |-> TRUE, found_COMM |-> TRUE, is_AIFC |-> c[1],
        compressionType |-> c[2], samplesize |-> c[3], channels |-> c[4],
        numsamples |-> n, frequency |-> PlayFreq ] :
        c \in { <<FALSE, "", 24, 1>>, <<TRUE, "alaw", 8, 1>>, <<FALSE, "", 16, 2>> },
        n \in { 3, SAMPLES + 2 } }

\* where the SSND chunk's samples start: after the FORM header, the COMM
\* chunk and the SSND chunk's header, offset and block size
AIFFDataOffset == 54

AIFFDecoders ==
    { [ AIFFFinish([NewMusic EXCEPT !.start = AIFFDataOffset], L).wave
          EXCEPT !.buffer = TRUE, !.stream = TRUE ] : L \in PlayAIFFs }

Decoders == WavDecoders \cup AIFFDecoders

\* the locals of the loaders before a chunk is read, and the record of
\* what was read
NoChunk == [tag |-> "", length |-> 0]
NoFormat == [encoding |-> 0, channels |-> 0, frequency |-> 0, bitspersample |-> 0]

LocalInit ==
    [ found_FMT |-> FALSE, found_DATA |-> FALSE,
      found_SSND |-> FALSE, found_COMM |-> FALSE, found_FVER |-> FALSE,
      is_AIFC |-> FALSE, channels |-> 0, numsamples |-> 0, samplesize |-> 0,
      frequency |-> 0, compressionType |-> "",
      loaded |-> FALSE,
      path |-> "", nread |-> 0, zero |-> FALSE, chunk |-> NoChunk,
      parsed |-> TRUE, format |-> NoFormat ]

HistInit(m) ==
    [ played |-> FALSE, n |-> 0, rewinds |-> 0,
      loops |-> [i \in DOMAIN m.loops |-> 0],
      tell |-> -1, looped |-> FALSE ]

\* the allocations a constructed decoder holds
Held(m) ==
    {"music", "buffer", "stream"} \cup (IF m.loops # <<>> THEN {"loops"} ELSE {})
                                  \cup (IF m.tags # {} THEN {"tags"} ELSE {})

(* A decoder that WAV_CreateFromRW returned: the cursor is where parsing   *)
(* left it, at the end of the source.                                      *)
Init ==
    /\ music \in Decoders
    /\ src = [pos |-> music.stop + SrcTail, len |-> music.stop + SrcTail]
    /\ stream = 0
    /\ call = "WAV_CreateFromRW"
    /\ ret = 0
    /\ done = FALSE
    /\ hist = HistInit(music)
    /\ pc = "returned"
    /\ local = [LocalInit EXCEPT !.loaded = TRUE]
    /\ heap = Held(music)
    /\ made = Held(music)
    /\ result = "music"
    /\ buffer = NoBuffer

----------------------------------------------------------------------------
(* The calls of the music interface on a constructed decoder. *)

PlayCounts == -1 .. MaxPlay

\* the byte budget of a WAV_GetSome call
Requests == { 2 * SAMPLES }

\* the positions of WAV_Seek, in seconds
SeekPositions == { -1, 1, SAMPLES }

Volumes == { MIX_MAX_VOLUME }

\* the volumes of a playback whose volume is turned down and up again
MixVolumes == { MIX_MAX_VOLUME, 0 }

PlayCall(n, skok) ==
    \E o \in {WAV_Play(music, src, n, skok)} :
        /\ music' = o.music
        /\ src' = o.src
        /\ call' = "WAV_Play"
        /\ ret' = o.ret
        /\ done' = FALSE
        /\ UNCHANGED <<stream, hist, loadvars, buffer>>

Play ==
    \E n \in PlayCounts, skok \in BOOLEAN : PlayCall(n, skok)

GetSomeCall(bytes, rdok, putok, skok) ==
    \E o \in {WAV_GetSome(music, src, stream, bytes, rdok, putok, skok)} :
        /\ music' = o.music
        /\ src' = o.src
        /\ stream' = o.stream
        /\ call' = "WAV_GetSome"
        /\ ret' = o.ret
        /\ done' = o.done
        /\ UNCHANGED <<hist, loadvars, buffer>>

GetSome ==
    \E bytes \in Requests, rdok \in BOOLEAN, putok \in BOOLEAN, skok \in BOOLEAN :
        GetSomeCall(bytes, rdok, putok, skok)

SeekCall(position, skok) ==
    \E o \in {WAV_Seek(music, src, position, skok)} :
        /\ src' = o.src
        /\ call' = "WAV_Seek"
        /\ ret' = o.ret
        /\ done' = FALSE
        /\ UNCHANGED <<music, stream, hist, loadvars, buffer>>

Seek ==
    \E position \in SeekPositions, skok \in BOOLEAN : SeekCall(position, skok)

\* WAV_Tell and WAV_Length compute a value from the structure and the
\* cursor and change neither; the model does not keep the value
Tell ==
    /\ WAV_Tell(music, src)[2] >= 0
    /\ UNCHANGED vars

Length ==
    /\ WAV_Length(music)[2] >= 0
    /\ UNCHANGED vars

SetVolume ==
    \E volume \in Volumes :
        /\ music' = [music EXCEPT !.volume = volume]
        /\ UNCHANGED <<src, stream, call, ret, done, hist, loadvars, buffer>>

Next == Play \/ GetSome \/ Seek \/ Tell \/ Length \/ SetVolume

Spec == Init /\ [][Next]_vars

\* the same calls, with a volume that changes
MixVolume ==
    \E volume \in MixVolumes :
        /\ music' = [music EXCEPT !.volume = volume]
        /\ UNCHANGED <<src, stream, call, ret, done, hist, loadvars, buffer>>

\* it starts from the decoders of the containers with at most one loop
MixInit == Init /\ Len(music.loops) <= 1

MixNext == Play \/ GetSome \/ Seek \/ Tell \/ Length \/ MixVolume

MixSpec == MixInit /\ [][MixNext]_vars

----------------------------------------------------------------------------
(* One playback run: WAV_Play once, then WAV_GetSome again and again, on a *)
(* source and a queue that never fail.  hist counts what the run rewinds:  *)
(* the restarts of the region, and for each loop the seeks back to its     *)
(* start since the region was last started.                                *)

RewindCap == MaxCount + MaxPlay + 1

Count(n) == Min(n + 1, RewindCap)

RunPlay ==
    /\ ~hist.played
    /\ \E n \in PlayCounts :
        \E o \in {WAV_Play(music, src, n, TRUE)} :
            /\ music' = o.music
            /\ src' = o.src
            /\ call' = "WAV_Play"
            /\ ret' = o.ret
            /\ done' = FALSE
            /\ hist' = [HistInit(music) EXCEPT !.played = TRUE, !.n = n]
            /\ UNCHANGED <<stream, loadvars, buffer>>

RunGetSome ==
    /\ hist.played
    /\ \E bytes \in Requests :
        \E o \in {WAV_GetSome(music, src, stream, bytes, TRUE, TRUE, TRUE)} :
            /\ music' = o.music
            /\ src' = o.src
            /\ stream' = o.stream
            /\ call' = "WAV_GetSome"
            /\ ret' = o.ret
            /\ done' = o.done
            /\ hist' = [hist EXCEPT
                  !.rewinds = IF o.restarted THEN Count(@) ELSE @,
                  !.loops = [i \in DOMAIN @ |->
                               IF o.restarted THEN 0
                               ELSE IF o.looped /\ i = o.loop THEN Count(@[i])
                               ELSE @[i]],
                  !.tell = o.tell,
                  !.looped = o.looped]
            /\ UNCHANGED <<loadvars, buffer>>

RunNext == RunPlay \/ RunGetSome

RunSpec == Init /\ [][RunNext]_vars /\ WF_vars(RunGetSome)

----------------------------------------------------------------------------
(* Properties of the calls on a constructed decoder.                       *)

\* the overall remaining count, and each loop's remaining count and active
\* flag
Counts(m) ==
    <<m.play_count,
      [i \in DOMAIN m.loops |-> <<m.loops[i].current_play_count, m.loops[i].active>>]>>

\* C4: WAV_GetSome signals the end of the stream exactly when it is called
\* with an empty queue and an overall count of 0; that call reads nothing and
\* leaves the cursor and every count as they were, so the decoder stays at
\* the end of the stream until the next WAV_Play.
C4_EndOfStreamIffCountZero ==
    [][ /\ (call' = "WAV_GetSome" /\ music'.volume = music.volume) =>
             /\ done' <=> (stream = 0 /\ music.play_count = 0)
             /\ done' => /\ ret' = 0
                         /\ src' = src
                         /\ stream' = stream
                         /\ Counts(music') = Counts(music)
        /\ (stream = 0 /\ music.play_count = 0 /\ call' # "WAV_Play") =>
             (stream' = 0 /\ music'.play_count = 0) ]_vars

\* the end of the stream was signalled, with loops whose counts it left alone
C4_Witness ==
    /\ call = "WAV_GetSome"
    /\ done
    /\ music.play_count = 0
    /\ music.loops # <<>>
    /\ src.pos < music.stop

C6_SourceFailureLeavesCounts ==
    [][ \A bytes \in Requests, rdok \in BOOLEAN, putok \in BOOLEAN, skok \in BOOLEAN :
          ( /\ call' = "WAV_GetSome"
            /\ ~rdok \/ ~skok
            /\ GetSomeCall(bytes, rdok, putok, skok)
            /\ \E o \in {WAV_GetSome(music, src, stream, bytes, rdok, putok, skok)} :
                  \/ /\ o.decoded
                     /\ ~rdok
                     /\ src.pos >= music.start
                     /\ src.pos < music.stop
                  \/ ~skok /\ (o.looped \/ o.restarted) )
          => /\ ret' = -1
             /\ Counts(music') = Counts(music) ]_vars

----------------------------------------------------------------------------
(* Properties of a playback run.                                           *)

\* the byte window of a loop lies inside the data region
WindowInRegion(m, loop) ==
    /\ LoopStart(m, loop) < LoopStop(m, loop)
    /\ LoopStop(m, loop) <= m.stop

NoInfiniteLoop(m) == \A i \in DOMAIN m.loops : m.loops[i].initial_play_count # 0

\* C1: when a run has played the region to the end of the stream, every
\* loop with a count n >= 1 and a window inside the region was rewound to
\* its start n - 1 times in the last pass over the region, and was
\* deactivated on its n-th arrival at its stop.
C1_LoopTraversedNTimes ==
    \A i \in DOMAIN music.loops :
        ( /\ hist.played
          /\ hist.n >= 1
          /\ done
          /\ music.loops[i].initial_play_count >= 1
          /\ WindowInRegion(music, music.loops[i]) )
        => /\ hist.loops[i] = music.loops[i].initial_play_count - 1
           /\ ~music.loops[i].active

\* what a run that was asked for n >= 1 passes has counted
C2_Counted ==
    (hist.played /\ hist.n >= 1) =>
        /\ music.play_count \in 0 .. hist.n
        /\ hist.rewinds = IF music.play_count = 0 THEN hist.n - 1
                          ELSE hist.n - music.play_count
        /\ done => music.play_count = 0

\* C2: after WAV_Play(n), n >= 1, the overall count goes from n down to 0
\* and is never negative, the region is restarted n - 1 times, and with no
\* infinite loop the run comes to signal the end of the stream.
C2_RegionPlayedNTimes ==
    /\ []C2_Counted
    /\ (hist.played /\ hist.n >= 1 /\ NoInfiniteLoop(music)) ~> done

\* a run of two passes with a loop came to its end
C2_Witness ==
    /\ hist.played
    /\ hist.n = 2
    /\ hist.rewinds = 1
    /\ done
    /\ music.loops # <<>>
    /\ NoInfiniteLoop(music)

----------------------------------------------------------------------------
(* Construction: WAV_CreateFromRW and the loaders, one step per chunk      *)
(* record.  The container is MaxFile bytes long; what its bytes hold is    *)
(* drawn as they are read.                                                 *)

\* n more bytes can be read
Avail(s, n) == s.pos + n <= s.len

\* the cursor after a read of n bytes, and after SDL_RWseek(.., n, RW_SEEK_CUR)
Advance(s, n) == [s EXCEPT !.pos = Min(s.pos + n, s.len)]
Skip(s, n) == [s EXCEPT !.pos = s.pos + n]

\* the allocations the structure points to while it is parsed
WaveHeld(w) ==
    (IF w.loops # <<>> THEN {"loops"} ELSE {}) \cup (IF w.tags # {} THEN {"tags"} ELSE {})

(* The smpl chunk: ParseSMPL.  records holds the loop records the chunk    *)
(* counts.                                                                 *)
ParseSMPL(wave, chunk_length, records, memok, rdok) ==
    IF ~memok THEN [loaded |-> FALSE, wave |-> wave, scratch |-> FALSE, freed |-> FALSE]
    ELSE IF ~rdok THEN [loaded |-> FALSE, wave |-> wave, scratch |-> TRUE, freed |-> FALSE]
    ELSE [loaded |-> TRUE, wave |-> AddSampleLoops(wave, records),
          scratch |-> TRUE, freed |-> TRUE]

(* The LIST chunk: ParseLIST.  list tells whether the chunk starts with    *)
(* "INFO" and what follows it at offset 4: the four characters of a        *)
(* sub-chunk id, the length its next four bytes declare, and where the     *)
(* first zero byte behind these eight bytes is.  No other offset of the    *)
(* chunk holds one of the four ids that are looked for.                    *)

\* the tag a sub-chunk id of an INFO list sets
InfoTag(id) ==
    CASE id = "INAM" -> "MIX_META_TITLE"
      [] id = "IART" -> "MIX_META_ARTIST"
      [] id = "IALB" -> "MIX_META_ALBUM"
      [] id = "BCPR" -> "MIX_META_COPYRIGHT"
      [] OTHER -> "none"

\* read_meta_field for a LIST chunk, with *i at a sub-chunk id: the new *i,
\* the tags, the tags it has set and the last byte of data it has read.
\* SDL_strlcpy measures its source up to the first zero byte.
read_meta_field(tags, tag_type, i, chunk_length, field, fieldOffset) ==
    IF field.len > chunk_length
    THEN [ i |-> i + 4, tags |-> tags, wrote |-> {}, last |-> i + 7 ]
    ELSE [ i |-> i + 4 + fieldOffset + field.len,
           tags |-> tags \cup {tag_type},
           wrote |-> {tag_type},
           last |-> Max(i + 7, i + 4 + fieldOffset + field.nul) ]

\* the scan of an INFO list
InfoScan(tags, chunk_length, field) ==
    IF 4 < chunk_length - 4 /\ InfoTag(field.id) # "none"
    THEN read_meta_field(tags, InfoTag(field.id), 4, chunk_length, field, 4)
    ELSE [ i |-> Max(4, chunk_length - 4), tags |-> tags, wrote |-> {},
           last |-> chunk_length - 2 ]

ParseLIST(wave, chunk_length, list, memok, rdok) ==
    IF ~memok
    THEN [loaded |-> FALSE, wave |-> wave, scratch |-> FALSE, freed |-> FALSE,
          wrote |-> {}, last |-> -1]
    ELSE IF ~rdok
    THEN [loaded |-> FALSE, wave |-> wave, scratch |-> TRUE, freed |-> FALSE,
          wrote |-> {}, last |-> -1]
    ELSE IF list.marked
    THEN LET scan == InfoScan(wave.tags, chunk_length, list)
         IN  [loaded |-> TRUE, wave |-> [wave EXCEPT !.tags = scan.tags],
              scratch |-> TRUE, freed |-> TRUE,
              wrote |-> scan.wrote, last |-> scan.last]
    ELSE [loaded |-> FALSE, wave |-> wave, scratch |-> TRUE, freed |-> TRUE,
          wrote |-> {}, last |-> 3]

(* The id3 chunk: ParseID3.  id3 tells whether the chunk starts with       *)
(* "ID3", and the tags it sets.                                            *)
ParseID3(wave, chunk_length, id3, memok, rdok) ==
    IF ~memok THEN [loaded |-> FALSE, wave |-> wave, scratch |-> FALSE, freed |-> FALSE]
    ELSE IF ~rdok THEN [loaded |-> FALSE, wave |-> wave, scratch |-> TRUE, freed |-> FALSE]
    ELSE IF id3.marked
    THEN [loaded |-> TRUE, wave |-> [wave EXCEPT !.tags = @ \cup id3.fields],
          scratch |-> TRUE, freed |-> TRUE]
    ELSE [loaded |-> FALSE, wave |-> wave, scratch |-> TRUE, freed |-> TRUE]

\* a chunk parser that allocates nothing and cannot fail
Parsed(wave) == [loaded |-> TRUE, wave |-> wave, scratch |-> FALSE, freed |-> FALSE]

\* if (chunk_length == 0) break;
ChunkLoopNeverEnds(chunk_length) == FALSE

ChunkLoopEnds(chunk_length) == chunk_length = 0

\* a variant of the checks after the loop that is content with either chunk
LoadedWAVEither(found_FMT, found_DATA) == found_FMT \/ found_DATA

\* what LoadWAVMusic returns after the loop
LoadedWAV(found_FMT, found_DATA) == found_FMT /\ found_DATA

\* WAV_Delete: what it frees
WAV_Delete(h) == h \ {"tags", "loops", "stream", "buffer", "music"}

\* a variant of the tail of WAV_CreateFromRW that creates the buffer before
\* it looks at what the loader returned
CreateFinishEager(m, loaded, h, md, bufok, strok) ==
    IF ~bufok
    THEN [music |-> m, heap |-> WAV_Delete(h), made |-> md, result |-> "NULL"]
    ELSE IF ~loaded
    THEN [music |-> m, heap |-> h \ {"music"}, made |-> md \cup {"buffer"},
          result |-> "NULL"]
    ELSE IF ~strok
    THEN [music |-> m, heap |-> WAV_Delete(h), made |-> md \cup {"buffer"},
          result |-> "NULL"]
    ELSE [music |-> [m EXCEPT !.buffer = TRUE, !.stream = TRUE],
          heap |-> h \cup {"buffer", "stream"},
          made |-> md \cup {"buffer", "stream"}, result |-> "music"]

\* the tail of WAV_CreateFromRW: after the loader returned
CreateFinish(m, loaded, h, md, bufok, strok) ==
    IF ~loaded
    THEN [music |-> m, heap |-> h \ {"music"}, made |-> md, result |-> "NULL"]
    ELSE IF ~bufok
    THEN [music |-> m, heap |-> WAV_Delete(h), made |-> md, result |-> "NULL"]
    ELSE IF ~strok
    THEN [music |-> m, heap |-> WAV_Delete(h), made |-> md \cup {"buffer"},
          result |-> "NULL"]
    ELSE [music |-> [m EXCEPT !.buffer = TRUE, !.stream = TRUE],
          heap |-> h \cup {"buffer", "stream"},
          made |-> md \cup {"buffer", "stream"}, result |-> "music"]

\* One pass of the chunk loop of LoadAIFFMusic on a record of length > 0:
\* the locals and the structure after the switch, and whether the loop asks
\* for the next chunk.  s is the cursor after the record's header.
LoadAIFFChunk(wave, L, s, tag, comm, offset) ==
    LET L1 == CASE tag = "SSND" -> [L EXCEPT !.found_SSND = TRUE]
                [] tag = "FVER" -> [L EXCEPT !.found_FVER = TRUE]
                [] tag = "COMM" ->
                     [L EXCEPT !.found_COMM = TRUE,
                               !.channels = comm.channels,
                               !.numsamples = comm.numsamples,
                               !.samplesize = comm.samplesize,
                               !.frequency = comm.frequency,
                               !.compressionType =
                                   IF L.is_AIFC THEN comm.compressionType ELSE @]
                [] OTHER -> L
    IN  [ local |-> L1,
          wave |-> IF tag = "SSND"
                   THEN [wave EXCEPT !.start = Advance(s, 8).pos + offset]
                   ELSE wave,
          more |-> ~L1.found_SSND \/ ~L1.found_COMM \/ (L1.is_AIFC /\ ~L1.found_FVER) ]

----------------------------------------------------------------------------
(* What the bytes of a container may hold. *)

\* the magic of the container and, after FORM, the form type
Headers ==
    { <<"RIFF", "WAVE">>, <<"WAVE", "">>, <<"FORM", "AIFF">>, <<"FORM", "AIFC">>,
      <<"FORM", "">>, <<"", "">> }

\* the lengths a chunk record declares, by its tag
ChunkLengths(tag) ==
    CASE tag = "fmt " -> { 4, FMT_SIZE }
      [] tag = "smpl" -> { SMPL_SIZE }
      [] tag \in {"LIST", "id3 "} -> { FMT_SIZE }
      [] OTHER -> { 4 }

Encodings == { 0, PCM_CODE, ADPCM_CODE, FLOAT_CODE, ALAW_CODE, uLAW_CODE, EXT_CODE }
Bits == { 0, 8, 16, 24, 32, 64 }

Formats ==
    { [encoding |-> e, channels |-> 1, frequency |-> PlayFreq, bitspersample |-> b] :
        e \in Encodings, b \in Bits }

\* no loop record, or one: forward or not, the memory of its active flag
\* set or not
ParsedLoops ==
    { <<>> } \cup { << [SampleLoop(<<0, 1>>, MaxCount) EXCEPT !.type = ty, !.junk = j] >> :
                      ty \in {0, 1}, j \in BOOLEAN }

Forward(records) == Cardinality({i \in DOMAIN records : records[i].type = 0})

TagContents ==
    { [marked |-> k, fields |-> f] : k \in BOOLEAN, f \in { {}, {"MIX_META_TITLE"} } }

\* what a LIST chunk holds: a list that is not INFO, or an INFO list with one
\* sub-chunk whose declared length is that of its text, more than is left
\* of the chunk, or more than the chunk
InfoIds == { "INAM", "IART", "IALB", "BCPR", "ISFT" }
FieldLengths == { 4, FMT_SIZE - 4, FMT_SIZE + 4 }
ListContents ==
    { [marked |-> FALSE, id |-> "ISFT", len |-> 4, nul |-> 3] }
    \cup { [marked |-> TRUE, id |-> id, len |-> n, nul |-> z] :
             id \in InfoIds, n \in FieldLengths, z \in {3, 4} }

AIFFTags == { "SSND", "COMM", "FVER", "JUNK" }
AIFFLengths == { 0, 4, FMT_SIZE + 2 }
CompressionTypes == { "NONE", "sowt", "raw ", "ulaw", "alaw", "fl32", "fl64" }
NoComm == [channels |-> 0, numsamples |-> 0, samplesize |-> 0, frequency |-> 0,
           compressionType |-> ""]
Comms ==
    { [channels |-> 1, numsamples |-> 3, samplesize |-> b, frequency |-> PlayFreq,
       compressionType |-> c] : b \in Bits, c \in CompressionTypes }

----------------------------------------------------------------------------
(* The steps of construction. *)

ParseInit ==
    /\ music = NewMusic
    /\ src = [pos |-> 0, len |-> MaxFile]
    /\ stream = 0
    /\ call = "WAV_CreateFromRW"
    /\ ret = 0
    /\ done = FALSE
    /\ hist = HistInit(NewMusic)
    /\ pc = "new"
    /\ local = LocalInit
    /\ heap = {}
    /\ made = {}
    /\ result = "none"
    /\ buffer = NoBuffer

\* WAV_CreateFromRW up to the chunk loop of the loader
CreateFromRW ==
    /\ pc = "new"
    /\ \E memok \in BOOLEAN, header \in Headers :
        IF ~memok
        THEN /\ pc' = "returned"
             /\ result' = "NULL"
             /\ UNCHANGED <<src, local, heap, made>>
        ELSE /\ heap' = {"music"}
             /\ made' = {"music"}
             /\ result' = result
             /\ CASE header[1] \in {"RIFF", "WAVE"} ->
                       /\ pc' = "wav"
                       /\ src' = Advance(src, 12)
                       /\ local' = [local EXCEPT !.path = "wav"]
                  [] header[1] = "FORM" /\ header[2] \in {"AIFF", "AIFC"} ->
                       /\ pc' = "aiff"
                       /\ src' = Advance(src, 12)
                       /\ local' = [local EXCEPT !.path = "aiff",
                                                 !.is_AIFC = (header[2] = "AIFC")]
                  [] header[1] = "FORM" /\ header[2] \notin {"AIFF", "AIFC"} ->
                       /\ pc' = "finish"
                       /\ src' = Advance(src, 12)
                       /\ local' = [local EXCEPT !.path = "aiff", !.parsed = FALSE]
                  [] OTHER ->
                       /\ pc' = "finish"
                       /\ src' = Advance(src, 4)
                       /\ local' = [local EXCEPT !.path = "none", !.parsed = FALSE]
    /\ UNCHANGED <<music, stream, call, ret, done, hist, buffer>>

\* the chunk loop of LoadWAVMusic goes on, or the loader returns SDL_FALSE
WavParsed(chunk, r, s, L) ==
    /\ music' = r.wave
    /\ src' = s
    /\ local' = [L EXCEPT !.nread = @ + 1, !.chunk = chunk, !.parsed = r.loaded]
    /\ pc' = IF r.loaded THEN "wav" ELSE "finish"
    /\ heap' = {"music"} \cup WaveHeld(r.wave)
                         \cup (IF r.scratch /\ ~r.freed THEN {"scratch"} ELSE {})
    /\ made' = made \cup WaveHeld(r.wave) \cup (IF r.scratch THEN {"scratch"} ELSE {})
    /\ UNCHANGED <<stream, call, ret, done, hist, buffer, result>>

\* the record of a chunk: its length is not 0
ChunkFMT ==
    /\ pc = "wav"
    /\ Avail(src, 8)
    /\ local.nread < MaxChunks
    /\ \E length \in ChunkLengths("fmt "), format \in Formats, memok \in BOOLEAN, rdok \in BOOLEAN :
        LET s == Advance(src, 8)
            read == rdok /\ Avail(s, length)
        IN  /\ ~ChunkLoopEnds(length)
            /\ \E r \in {ParseFMT(music, length, format, memok, read)} :
                 WavParsed([tag |-> "fmt ", length |-> length], r, Advance(s, length),
                           [local EXCEPT !.found_FMT = TRUE,
                                         !.format = IF length >= FMT_SIZE /\ memok /\ read
                                                    THEN format ELSE NoFormat])

ChunkDATA ==
    /\ pc = "wav"
    /\ Avail(src, 8)
    /\ local.nread < MaxChunks
    /\ \E length \in ChunkLengths("data") :
        LET s == Advance(src, 8)
        IN  /\ ~ChunkLoopEnds(length)
            /\ WavParsed([tag |-> "data", length |-> length],
                         Parsed(ParseDATA(music, s.pos, length)), Skip(s, length),
                         [local EXCEPT !.found_DATA = TRUE])

ChunkSMPL ==
    /\ pc = "wav"
    /\ Avail(src, 8)
    /\ local.nread < MaxChunks
    /\ \E length \in ChunkLengths("smpl"), records \in ParsedLoops,
          memok \in BOOLEAN, rdok \in BOOLEAN :
        LET s == Advance(src, 8)
            read == rdok /\ Avail(s, length)
        IN  /\ ~ChunkLoopEnds(length)
            /\ Len(music.loops) + Forward(records) <= MaxLoops
            /\ \E r \in {ParseSMPL(music, length, records, memok, read)} :
                 WavParsed([tag |-> "smpl", length |-> length], r, Advance(s, length), local)

ChunkLIST ==
    /\ pc = "wav"
    /\ Avail(src, 8)
    /\ local.nread < MaxChunks
    /\ \E length \in ChunkLengths("LIST"), list \in ListContents,
          memok \in BOOLEAN, rdok \in BOOLEAN :
        LET s == Advance(src, 8)
            read == rdok /\ Avail(s, length)
        IN  /\ ~ChunkLoopEnds(length)
            /\ \E r \in {ParseLIST(music, length, list, memok, read)} :
                 WavParsed([tag |-> "LIST", length |-> length, list |-> list,
                            wrote |-> r.wrote, last |-> r.last],
                           r, Advance(s, length), local)

ChunkID3 ==
    /\ pc = "wav"
    /\ Avail(src, 8)
    /\ local.nread < MaxChunks
    /\ \E length \in ChunkLengths("id3 "), id3 \in TagContents,
          memok \in BOOLEAN, rdok \in BOOLEAN :
        LET s == Advance(src, 8)
            read == rdok /\ Avail(s, length)
        IN  /\ ~ChunkLoopEnds(length)
            /\ \E r \in {ParseID3(music, length, id3, memok, read)} :
                 WavParsed([tag |-> "id3 ", length |-> length, list |-> id3,
                            wrote |-> r.wave.tags \ music.tags,
                            last |-> IF memok /\ read THEN length - 1 ELSE -1],
                           r, Advance(s, length), local)

ChunkOther ==
    /\ pc = "wav"
    /\ Avail(src, 8)
    /\ local.nread < MaxChunks
    /\ \E length \in ChunkLengths("JUNK") :
        LET s == Advance(src, 8)
        IN  /\ ~ChunkLoopEnds(length)
            /\ WavParsed([tag |-> "JUNK", length |-> length],
                         Parsed(music), Skip(s, length), local)

\* a record of length 0, whatever its tag, or the end of the source, where
\* SDL_ReadLE32 returns 0: the loop ends and the loader looks at what it found
ChunkEnd ==
    /\ pc = "wav"
    /\ \E tag \in (IF Avail(src, 8)
                   THEN {"fmt ", "data", "smpl", "LIST", "id3 ", "JUNK"} ELSE {""}),
          length \in {0} :
        /\ ChunkLoopEnds(length)
        /\ local' = [local EXCEPT !.nread = @ + 1,
                                  !.zero = TRUE,
                                  !.chunk = [tag |-> tag, length |-> length],
                                  !.loaded = LoadedWAV(local.found_FMT, local.found_DATA)]
    /\ src' = Advance(src, 8)
    /\ pc' = "finish"
    /\ UNCHANGED <<music, stream, call, ret, done, hist, buffer, heap, made, result>>

\* one pass of the chunk loop of LoadAIFFMusic, and after the last pass
\* the rest of the loader
AIFFChunk ==
    /\ pc = "aiff"
    /\ \E tag \in (IF Avail(src, 8) THEN AIFFTags ELSE {""}),
          length \in (IF Avail(src, 8) /\ local.nread < MaxChunks
                      THEN AIFFLengths ELSE {0}),
          skok \in BOOLEAN :
        \E comm \in (IF tag = "COMM" /\ length # 0 THEN Comms ELSE {NoComm}) :
            LET s == Advance(src, 8)
                next_chunk == s.pos + length
                chunk == [tag |-> tag, length |-> length]
            IN  IF ChunkLoopEnds(length)
                THEN \E f \in {AIFFFinish(music, local)} :
                        /\ music' = f.wave
                        /\ src' = s
                        /\ local' = [local EXCEPT !.nread = @ + 1, !.zero = TRUE,
                                                  !.chunk = chunk, !.loaded = f.loaded]
                        /\ pc' = "finish"
                ELSE \E o \in {LoadAIFFChunk(music, local, s, tag, comm, 0)} :
                        IF o.more /\ skok
                        THEN /\ music' = o.wave
                             /\ src' = [s EXCEPT !.pos = next_chunk]
                             /\ local' = [o.local EXCEPT !.nread = @ + 1, !.chunk = chunk]
                             /\ pc' = "aiff"
                        ELSE \E f \in {AIFFFinish(o.wave, o.local)} :
                                /\ music' = f.wave
                                /\ src' = s
                                /\ local' = [o.local EXCEPT !.nread = @ + 1,
                                                            !.chunk = chunk,
                                                            !.loaded = f.loaded]
                                /\ pc' = "finish"
    /\ UNCHANGED <<stream, call, ret, done, hist, buffer, heap, made, result>>

\* WAV_CreateFromRW after the loader returned
Finish ==
    /\ pc = "finish"
    /\ \E bufok \in BOOLEAN, strok \in BOOLEAN :
        \E o \in {CreateFinish(music, local.loaded, heap, made, bufok, strok)} :
            /\ music' = o.music
            /\ heap' = o.heap
            /\ made' = o.made
            /\ result' = o.result
    /\ pc' = "returned"
    /\ UNCHANGED <<src, stream, call, ret, done, hist, buffer, local>>

ParseNext ==
    \/ CreateFromRW
    \/ ChunkFMT \/ ChunkDATA \/ ChunkSMPL \/ ChunkLIST \/ ChunkID3 \/ ChunkOther
    \/ ChunkEnd
    \/ AIFFChunk
    \/ Finish

ParseSpec == ParseInit /\ [][ParseNext]_vars

----------------------------------------------------------------------------
(* Properties of construction.                                             *)

\* the loader has returned, or WAV_CreateFromRW has
Loaded == pc \in {"finish", "returned"}

\* C7: when parsing fails, by an unknown magic, a chunk parser that returns
\* SDL_FALSE, or a chunk loop that ends without the chunks it needs, the
\* loader returns SDL_FALSE; and as long as no loader has returned SDL_TRUE
\* neither the decode buffer nor the audio stream has been created, and
\* WAV_CreateFromRW returns NULL.
C7_NoDecoderOnParseFailure ==
    /\ ( /\ Loaded
         /\ \/ local.path = "none"
            \/ ~local.parsed
            \/ local.path = "wav" /\ ~(local.found_FMT /\ local.found_DATA)
            \/ local.path = "aiff" /\ ~(local.found_SSND /\ local.found_COMM) )
       => ~local.loaded
    /\ ~local.loaded =>
         /\ "buffer" \notin made
         /\ "stream" \notin made
         /\ ~music.buffer
         /\ ~music.stream
         /\ result # "music"
         /\ pc = "returned" => result = "NULL"

\* a container with a fmt chunk and no data chunk was refused
C7_Witness ==
    /\ pc = "returned"
    /\ result = "NULL"
    /\ local.path = "wav"
    /\ local.zero
    /\ local.parsed
    /\ local.found_FMT
    /\ ~local.found_DATA

\* C8: when construction fails, everything allocated while parsing has been
\* freed by the time WAV_CreateFromRW returns: the chunk buffers, the loops
\* and the tags.
C8_FailureReleasesAll ==
    (pc = "returned" /\ result = "NULL") => heap = {}

\* C9: on the RIFF path the chunk loop goes on only while no record of
\* length 0 was read, and after such a record no other is read; the loader
\* returns SDL_TRUE exactly when the loop has ended with both the fmt and
\* the data chunk found, and only then is a decoder returned.
C9_ZeroLengthEndsChunkLoop ==
    /\ [](local.path = "wav" =>
            /\ local.zero <=> (local.nread > 0 /\ local.chunk.length = 0)
            /\ local.zero => Loaded
            /\ (Loaded /\ local.zero) =>
                  (local.loaded <=> (local.found_FMT /\ local.found_DATA))
            /\ local.loaded => (local.zero /\ local.parsed)
            /\ result = "music" => (local.found_FMT /\ local.found_DATA)
            /\ (pc = "returned" /\ ~(local.found_FMT /\ local.found_DATA)) =>
                  result = "NULL")
    /\ [][(local.path = "wav" /\ local.zero) =>
             (local'.nread = local.nread /\ src' = src)]_vars

\* a data chunk of length 0 after the fmt chunk ended the loop, and no
\* decoder was returned
C9_Witness ==
    /\ pc = "returned"
    /\ local.path = "wav"
    /\ local.zero
    /\ local.chunk = [tag |-> "data", length |-> 0]
    /\ local.found_FMT
    /\ ~local.found_DATA
    /\ src.pos < src.len
    /\ result = "NULL"

\* C10: ParseFMT returns SDL_TRUE exactly for the pairs (PCM, 8), (PCM, 16),
\* (PCM, 32), (float, 32), (mu-law, 8) and (A-law, 8) of encoding and bits
\* per sample; PCM and float decode with fetch_pcm, mu-law with fetch_ulaw,
\* A-law with fetch_alaw.
C10_FormatTable ==
    (local.path = "wav" /\ local.chunk.tag = "fmt " /\ local.format # NoFormat) =>
        /\ local.parsed <=>
              <<local.format.encoding, local.format.bitspersample>> \in
                  { <<PCM_CODE, 8>>, <<PCM_CODE, 16>>, <<PCM_CODE, 32>>,
                    <<FLOAT_CODE, 32>>, <<uLAW_CODE, 8>>, <<ALAW_CODE, 8>> }
        /\ local.parsed =>
              music.decode = CASE local.format.encoding = uLAW_CODE -> "fetch_ulaw"
                               [] local.format.encoding = ALAW_CODE -> "fetch_alaw"
                               [] OTHER -> "fetch_pcm"

\* an A-law format was taken, and later a decoder returned
C10_Witness ==
    /\ local.path = "wav"
    /\ local.chunk.tag = "fmt "
    /\ local.parsed
    /\ local.format.encoding = ALAW_CODE
    /\ local.format.bitspersample = 8
    /\ music.decode = "fetch_alaw"

----------------------------------------------------------------------------
(* The expansion loops of fetch_xlaw and fetch_pcm24be over the bytes of   *)
(* music->buffer, one step per iteration.  A step starts where SDL_RWread  *)
(* has stored the source bytes at the front of the buffer and the length   *)
(* was cut to whole frames; behind them the buffer holds what an earlier   *)
(* call left there.                                                        *)

MaxSamples24 == 4   \* 24-bit samples one fetch_pcm24be call reads
MaxLawBytes == 2    \* bytes one fetch_xlaw call reads

\* what a decode strategy finds behind the bytes it has read
StaleBytes == {0, 170}

\* the bytes of the buffer that the loop can touch, from 0
Filled(data, stale, n) ==
    [k \in 0 .. n - 1 |-> IF k < Len(data) THEN data[k + 1] ELSE stale]

\* fetch_xlaw from the read to the head of its loop
StartXlaw(decode, data, samplesize, stale) ==
    LET length == Len(data) - CMod(Len(data), samplesize)
    IN  [ decode |-> decode, pc |-> "loop", data |-> data,
          bytes |-> Filled(data, stale, 2 * Len(data) + 2),
          samplesize |-> samplesize, length |-> length,
          i |-> length - 1, o |-> (length - 1) * 2,
          written |-> {}, clobbered |-> FALSE, beyond |-> FALSE, ret |-> 0 ]

\* fetch_pcm24be from the read to the head of its loop
StartPcm24(data, samplesize, stale) ==
    LET length == Len(data) - CMod(Len(data), samplesize)
    IN  [ decode |-> "fetch_pcm24be", pc |-> "loop", data |-> data,
          bytes |-> Filled(data, stale, 4 * (Len(data) \div 3) + 4),
          samplesize |-> samplesize, length |-> length,
          i |-> length - 1, o |-> CDiv(length - 1, 3) * 4,
          written |-> {}, clobbered |-> FALSE, beyond |-> FALSE, ret |-> 0 ]

\* decode_sample as fetch_ulaw and fetch_alaw pass it to fetch_xlaw
DecodeSample(decode, byte) ==
    IF decode = "fetch_ulaw" THEN uLAW_To_PCM16(byte) ELSE ALAW_To_PCM16(byte)

\* one iteration of the loop of fetch_xlaw
XlawIteration(b) ==
    LET decoded == DecodeSample(b.decode, b.bytes[b.i])
        pattern == IF decoded < 0 THEN decoded + 65536 ELSE decoded
    IN  [ b EXCEPT !.bytes = [@ EXCEPT ![b.o] = pattern % 256,
                                       ![b.o + 1] = (pattern \div 256) % 256],
                   !.i = b.i - 1,
                   !.o = b.o - 2,
                   !.written = @ \cup {b.o, b.o + 1},
                   !.clobbered = @ \/ b.i \in b.written,
                   !.beyond = @ \/ b.i >= Len(b.data) ]

\* one iteration of the loop of fetch_pcm24be: the Uint32 at buffer + i is
\* loaded, and its three upper bytes are the sample sign_extend_24_32 keeps
Pcm24Iteration(b) ==
    LET x == <<b.bytes[b.i], b.bytes[b.i + 1], b.bytes[b.i + 2], b.bytes[b.i + 3]>>
        decoded == sign_extend_24_32(x)
        used == {b.i + 1, b.i + 2, b.i + 3}
    IN  [ b EXCEPT !.bytes = [@ EXCEPT ![b.o] = Uint32Byte(decoded, 0),
                                       ![b.o + 1] = Uint32Byte(decoded, 1),
                                       ![b.o + 2] = Uint32Byte(decoded, 2),
                                       ![b.o + 3] = Uint32Byte(decoded, 3)],
                   !.i = b.i - 3,
                   !.o = b.o - 4,
                   !.written = @ \cup {b.o, b.o + 1, b.o + 2, b.o + 3},
                   !.clobbered = @ \/ (used \cap b.written # {}),
                   !.beyond = @ \/ (\E k \in used : k >= Len(b.data)) ]

\* the return statements of the two strategies
FetchResult(b) ==
    IF b.decode = "fetch_pcm24be"
    THEN CDiv(b.length - b.samplesize, 3) * 4
    ELSE b.length * 2

\* the inputs of the expansions
LawBytes == 0 .. 255
LawPairs == { <<b, 255 - b>> : b \in {0, 42, 85, 213, 255} }
LawData ==
    { <<b>> : b \in LawBytes } \cup { d \in LawPairs : Len(d) <= MaxLawBytes }
LawFrames == {1, 2}
Samples24 == { <<0, 0, 0>>, <<255, 255, 255>>, <<1, 2, 128>>, <<3, 4, 5>> }
Pcm24Frames == {3, 6}

RECURSIVE Flatten(_)
Flatten(samples) ==
    IF samples = <<>> THEN <<>> ELSE Head(samples) \o Flatten(Tail(samples))

Pcm24Data ==
    { Flatten(s) : s \in UNION { [1 .. n -> Samples24] : n \in 1 .. MaxSamples24 } }

Expansions ==
    { StartXlaw(d, data, f, st) :
        d \in {"fetch_ulaw", "fetch_alaw"}, data \in LawData,
        f \in LawFrames, st \in StaleBytes }
    \cup { StartPcm24(data, f, st) :
             data \in Pcm24Data, f \in Pcm24Frames, st \in StaleBytes }

FetchInit ==
    /\ buffer \in Expansions
    /\ music = [NewMusic EXCEPT !.decode = buffer.decode,
                                !.samplesize = buffer.samplesize]
    /\ src = [pos |-> Len(buffer.data), len |-> Len(buffer.data)]
    /\ stream = 0
    /\ call = "WAV_GetSome"
    /\ ret = 0
    /\ done = FALSE
    /\ hist = HistInit(NewMusic)
    /\ pc = "returned"
    /\ local = [LocalInit EXCEPT !.loaded = TRUE]
    /\ heap = {"music", "buffer"}
    /\ made = {"music", "buffer"}
    /\ result = "music"

XlawStep ==
    /\ buffer.pc = "loop"
    /\ buffer.decode \in {"fetch_ulaw", "fetch_alaw"}
    /\ buffer.i >= 0
    /\ buffer' = XlawIteration(buffer)
    /\ UNCHANGED <<playvars, hist, loadvars>>

Pcm24Step ==
    /\ buffer.pc = "loop"
    /\ buffer.decode = "fetch_pcm24be"
    /\ buffer.i >= 0
    /\ buffer' = Pcm24Iteration(buffer)
    /\ UNCHANGED <<playvars, hist, loadvars>>

FetchReturn ==
    /\ buffer.pc = "loop"
    /\ buffer.i < 0
    /\ buffer' = [buffer EXCEPT !.pc = "returned", !.ret = FetchResult(buffer)]
    /\ UNCHANGED <<playvars, hist, loadvars>>

FetchNext == XlawStep \/ Pcm24Step \/ FetchReturn

FetchSpec == FetchInit /\ [][FetchNext]_vars

----------------------------------------------------------------------------
(* Claims on the sample decoders and the expansion loops. *)

\* output sample k of the buffer as a little-endian two's complement value
Sample16(bytes, k) ==
    LET pattern == bytes[2 * k] + 256 * bytes[2 * k + 1]
    IN  IF pattern >= 32768 THEN pattern - 65536 ELSE pattern

\* the mu-law expansion of G.711: complement, sign, segment, quantization
uLawReference(b) ==
    LET c == 255 - b
        sign == c \div 128
        segment == (c \div 16) % 8
        quantization == c % 16
        magnitude == ((quantization * 8 + 132) * Pow2(segment)) - 132
    IN  IF sign = 1 THEN -magnitude ELSE magnitude

\* C11: the mu-law expansion of every byte 0..255 is the reference value
\* (complement the byte; sign bit, 3-bit segment, 4-bit quantization;
\* magnitude (((quantization << 3) + 0x84) << segment) - 0x84, negated for
\* the set sign bit), the value fits a signed 16-bit sample, and the byte
\* 0xFF expands to 0.
C11_uLawIsReference ==
    (buffer.decode = "fetch_ulaw" /\ buffer.pc = "returned") =>
        \A k \in 0 .. buffer.length - 1 :
            LET b == buffer.data[k + 1]
            IN  /\ Sample16(buffer.bytes, k) = uLawReference(b)
                /\ uLawReference(b) \in -32768 .. 32767
                /\ b = 255 => Sample16(buffer.bytes, k) = 0

C11_Witness ==
    /\ buffer.decode = "fetch_ulaw"
    /\ buffer.pc = "returned"
    /\ buffer.length = 2
    /\ buffer.data = <<0, 255>>
    /\ Sample16(buffer.bytes, 0) = -32124
    /\ Sample16(buffer.bytes, 1) = 0

\* C12 as stated: the A-law expansion of the byte 0xD5 is the sample 0.
C12_ALawD5IsZero ==
    (buffer.decode = "fetch_alaw" /\ buffer.pc = "returned") =>
        \A k \in 0 .. buffer.length - 1 :
            buffer.data[k + 1] = 213 => Sample16(buffer.bytes, k) = 0

\* C12, amended: the A-law expansion of the byte 0xD5 is the sample 8, the
\* smallest positive value of the code, that of 0x55 is -8, and no byte
\* expands to 0.
C12_ALawD5IsEight ==
    (buffer.decode = "fetch_alaw" /\ buffer.pc = "returned") =>
        \A k \in 0 .. buffer.length - 1 :
            /\ buffer.data[k + 1] = 213 => Sample16(buffer.bytes, k) = 8
            /\ buffer.data[k + 1] = 85 => Sample16(buffer.bytes, k) = -8
            /\ Sample16(buffer.bytes, k) # 0

C12_Witness ==
    /\ buffer.decode = "fetch_alaw"
    /\ buffer.pc = "returned"
    /\ buffer.length = 1
    /\ buffer.data = <<213>>
    /\ Sample16(buffer.bytes, 0) = 8

\* C13: in one 24-to-32 expansion call over source data whose length is a
\* multiple of 12, whatever the bytes are, no byte of the buffer is taken
\* as sample input after an output write of the same call has overwritten
\* it, and no byte behind the source bytes just read is taken as sample
\* input.
C13_InputIsUntouchedSource ==
    (buffer.decode = "fetch_pcm24be" /\ Len(buffer.data) % 12 = 0) =>
        (~buffer.clobbered /\ ~buffer.beyond)

\* output sample k of the buffer: its four bytes, the lowest first
Sample32(bytes, k) ==
    <<bytes[4 * k], bytes[4 * k + 1], bytes[4 * k + 2], bytes[4 * k + 3]>>

\* the sign extension from bit 23 of source sample k, bytes 3k .. 3k+2
SignExtended(data, k) ==
    <<data[3 * k + 1], data[3 * k + 2], data[3 * k + 3],
      IF data[3 * k + 3] >= 128 THEN 255 ELSE 0>>

\* C19: a 24-to-32 expansion call that has read L source bytes, L a
\* multiple of 3 and of the frame size, returns (L / 3) * 4, and output
\* sample k is the sign extension from bit 23 of source sample k.
C19_ExpandsEverySample ==
    (/\ buffer.decode = "fetch_pcm24be"
     /\ buffer.pc = "returned"
     /\ Len(buffer.data) % buffer.samplesize = 0) =>
        /\ buffer.ret = (Len(buffer.data) \div 3) * 4
        /\ \A k \in 0 .. (Len(buffer.data) \div 3) - 1 :
               Sample32(buffer.bytes, k) = SignExtended(buffer.data, k)

----------------------------------------------------------------------------
(* Claims on the metadata of a LIST chunk. *)

\* C14: when an INFO list holds an INAM, IART, IALB or BCPR record whose
\* declared length is more than the bytes the chunk has left behind the
\* record's header, the record's tag stays unset, no byte outside the
\* chunk is read, and the scan ends without failing the parse.
C14_OverlongFieldIsIgnored ==
    (/\ local.chunk.tag = "LIST"
     /\ local.chunk.length > 0
     /\ local.chunk.last >= 0
     /\ local.chunk.list.marked
     /\ InfoTag(local.chunk.list.id) # "none"
     /\ local.chunk.list.len > local.chunk.length - 12) =>
        /\ local.chunk.wrote = {}
        /\ local.chunk.last < local.chunk.length
        /\ local.parsed

----------------------------------------------------------------------------
(* Claims on what the playback calls change. *)

\* every loop is active with its remaining count at its initial count
LoopsReset(m) ==
    \A i \in DOMAIN m.loops :
        /\ m.loops[i].active
        /\ m.loops[i].current_play_count = m.loops[i].initial_play_count

\* C15: from any reachable playback state a successful Play(n) leaves every
\* loop active with its remaining count at its initial count, the overall
\* count at n and the cursor at the region start; Play reports failure
\* exactly when the seek to the region start fails.
C15_PlayResets ==
    \A n \in PlayCounts, skok \in BOOLEAN :
        \A o \in {WAV_Play(music, src, n, skok)} :
            /\ (o.ret # 0) <=> (RWseek(src, music.start, skok).ret < 0)
            /\ o.ret = 0 => /\ LoopsReset(o.music)
                            /\ o.music.play_count = n
                            /\ o.src.pos = o.music.start

C15_Witness ==
    /\ call = "WAV_Play"
    /\ ret = 0
    /\ music.play_count = MaxPlay
    /\ Len(music.loops) > 0
    /\ LoopsReset(music)
    /\ music.loops[1].initial_play_count > 0
    /\ src.pos = music.start

\* what construction fixes: the descriptor, the decode strategy and the
\* region
Fixed(m) == <<m.spec, m.encoding, m.samplesize, m.decode, m.start, m.stop>>

\* every loop of n has the window and the initial count it has in m
LoopsFixed(m, n) ==
    /\ DOMAIN n.loops = DOMAIN m.loops
    /\ \A i \in DOMAIN m.loops :
           /\ n.loops[i].start = m.loops[i].start
           /\ n.loops[i].stop = m.loops[i].stop
           /\ n.loops[i].initial_play_count = m.loops[i].initial_play_count

\* the structure without its loops, its overall count and its volume
Rest(m) == <<m.buffer, m.stream, m.tags>>

\* C16 as stated: no Play, GetChunk, Seek, Tell, Length or set-volume call
\* changes the descriptor, the decode strategy, the region or a loop's
\* window and initial count; only the loops' remaining counts and active
\* flags, the overall count and the cursor change; Tell and Length change
\* nothing.
C16_OnlyCountsAndCursorChange ==
    [][/\ \/ music' = music
          \/ /\ Fixed(music') = Fixed(music)
             /\ LoopsFixed(music, music')
             /\ Rest(music') = Rest(music)
             /\ music'.volume = music.volume
       /\ (Tell \/ Length) => UNCHANGED vars]_vars

\* C16, amended: the same, with the volume among what changes (set-volume
\* stores it, and changes nothing else).
C16_ConstructionIsFixed ==
    [][/\ \/ music' = music
          \/ /\ Fixed(music') = Fixed(music)
             /\ LoopsFixed(music, music')
             /\ Rest(music') = Rest(music)
             /\ music'.volume # music.volume =>
                    /\ UNCHANGED <<src, stream, call, ret, done>>
                    /\ Counts(music') = Counts(music)
       /\ (Tell \/ Length) => UNCHANGED vars]_vars

C16_Witness ==
    /\ call = "WAV_GetSome"
    /\ music.volume = 0
    /\ Len(music.loops) > 0
    /\ ~music.loops[1].active
    /\ music.loops[1].current_play_count # music.loops[1].initial_play_count
    /\ music.play_count = 0
    /\ src.pos > music.start

----------------------------------------------------------------------------
(* Claims on the formats of an AIFF container. *)

\* LoadAIFFMusic has found its SSND and COMM chunks and has returned
AIFFDecided ==
    /\ local.path = "aiff"
    /\ Loaded
    /\ local.found_SSND
    /\ local.found_COMM

\* plain AIFF, or AIFC with the compression type NONE
Uncompressed == ~local.is_AIFC \/ local.compressionType = "NONE"

\* C17: LoadAIFFMusic takes 8-bit samples that are uncompressed (plain AIFF,
\* or AIFC with NONE), "raw " or "sowt" with direct copy, 8-bit "ulaw" and
\* "alaw" with the law expansion and the matching encoding, 16-bit and
\* 32-bit samples with direct copy, and 24-bit samples with the 24-to-32
\* expansion whatever the compression type is; every other triple of bit
\* depth, container and compression type fails.
C17_AIFFTable ==
    AIFFDecided =>
        CASE local.samplesize = 8 /\
             (Uncompressed \/ local.compressionType \in {"raw ", "sowt"}) ->
                 local.loaded /\ music.decode = "fetch_pcm"
          [] local.samplesize = 8 /\ local.is_AIFC /\ local.compressionType = "ulaw" ->
                 /\ local.loaded
                 /\ music.decode = "fetch_ulaw"
                 /\ music.encoding = uLAW_CODE
          [] local.samplesize = 8 /\ local.is_AIFC /\ local.compressionType = "alaw" ->
                 /\ local.loaded
                 /\ music.decode = "fetch_alaw"
                 /\ music.encoding = ALAW_CODE
          [] local.samplesize \in {16, 32} ->
                 /\ Uncompressed => local.loaded
                 /\ local.loaded => music.decode = "fetch_pcm"
          [] local.samplesize = 24 ->
                 local.loaded /\ music.decode = "fetch_pcm24be"
          [] OTHER -> ~local.loaded

----------------------------------------------------------------------------
(* Claims on the loop windows and on what the decode strategies return. *)

\* C18: the byte window of a loop over frames s .. e is
\* [start + s * F, start + (e + 1) * F), where F is the frame size of the
\* descriptor, channels times the bytes of one encoded sample, the F of
\* Seek, Tell and Length; for 8-bit mu-law and A-law data F is the number
\* of channels.
C18_LoopWindowInFrames ==
    \A i \in DOMAIN music.loops :
        /\ LoopStart(music, music.loops[i]) =
               music.start + music.loops[i].start * music.samplesize
        /\ LoopStop(music, music.loops[i]) =
               music.start + (music.loops[i].stop + 1) * music.samplesize
        /\ music.decode \in {"fetch_ulaw", "fetch_alaw"} =>
               LoopStop(music, music.loops[i]) - LoopStart(music, music.loops[i]) =
                   (music.loops[i].stop + 1 - music.loops[i].start) * music.spec.channels

\* the ceiling of a call of WAV_GetSome at pos: the stop of the loop the
\* cursor is in, or of the region
Ceiling(m, pos) ==
    IF FindLoop(m, pos) = 0 THEN m.stop ELSE LoopStop(m, m.loops[FindLoop(m, pos)])

\* C20: when WAV_GetSome calls the decode strategy with the budget
\* min(spec.size, ceiling - cursor) on a source whose reads succeed and the
\* strategy returns no more than 0, the source has no byte left before
\* the ceiling: the branch that restarts or ends the region is not taken
\* while bytes that were not decoded lie between the cursor and the ceiling.
C20_NothingLeftWhenNothingDecoded ==
    \A bytes \in Requests :
        \A o \in {WAV_GetSome(music, src, stream, bytes, TRUE, TRUE, TRUE)} :
            (o.decoded /\ o.amount <= 0) =>
                /\ src.pos >= Min(Ceiling(music, src.pos), src.len)
                /\ o.tell >= Min(Ceiling(music, src.pos), src.len)

----------------------------------------------------------------------------
(* Claims on the boundaries one call of WAV_GetSome handles. *)

\* the flags of the byte source and of the output queue in one call
Flags == BOOLEAN \X BOOLEAN \X BOOLEAN

\* C21: one call of WAV_GetSome calls the decode strategy at most once and
\* rewinds the cursor at most once: a call that seeks back to a loop start
\* neither changes the overall count nor handles the region boundary, and a
\* call that handles the region boundary does not seek to a loop start.
C21_OneBoundaryPerCall ==
    \A bytes \in Requests, f \in Flags :
        \A o \in {WAV_GetSome(music, src, stream, bytes, f[1], f[2], f[3])} :
            /\ o.looped => /\ ~o.restarted
                           /\ ~o.finished
                           /\ o.music.play_count = music.play_count
                           /\ f[3] => o.src.pos = LoopStart(music, music.loops[o.loop])
            /\ (o.restarted \/ o.finished) => ~o.looped
            /\ (o.restarted /\ f[3]) => o.src.pos = music.start
            /\ o.decoded =>
                   o.tell - src.pos <=
                       IF FetchAmount(music, src.pos, Ceiling(music, src.pos)) >= 0
                       THEN FetchAmount(music, src.pos, Ceiling(music, src.pos))
                       ELSE src.len - src.pos

\* a call has rewound the cursor to the start of a loop inside the region and
\* counted the loop down, with passes of the region still to play
C21_Witness ==
    /\ call = "WAV_GetSome"
    /\ ret = 0
    /\ music.play_count > 1
    /\ \E i \in DOMAIN music.loops :
           /\ music.loops[i].active
           /\ music.loops[i].current_play_count < music.loops[i].initial_play_count
           /\ src.pos = LoopStart(music, music.loops[i])
           /\ src.pos > music.start

----------------------------------------------------------------------------
(* Claims on the chunks that are optional. *)

\* C22: the LIST and id3 chunks are optional and gated by their content: a
\* LIST chunk that was read and does not start with "INFO", or an id3 chunk
\* that was read and does not start with "ID3", sets no tag, and the chunk
\* loop of LoadWAVMusic goes on with the next chunk instead of failing the
\* construction.
C22_UnmarkedChunkIsSkipped ==
    (/\ local.path = "wav"
     /\ local.chunk.tag \in {"LIST", "id3 "}
     /\ local.chunk.length > 0
     /\ local.chunk.last >= 0
     /\ ~local.chunk.list.marked) =>
        /\ local.chunk.wrote = {}
        /\ local.parsed
        /\ pc = "wav"

----------------------------------------------------------------------------
(* Claims on a playback run with loops. *)

\* C23: a loop whose count is 0 is infinite.  In a run without Seek and
\* without a second Play, on a source that never fails, once the cursor is
\* in the window of such a loop (the loop WAV_GetSome finds for it, its
\* window inside the region, the overall count not 0), a call of
\* WAV_GetSome leaves the loop active and its remaining count at 0, rewinds
\* the cursor to the loop's start when it has arrived at the loop's stop,
\* leaves the cursor in the window, and does not signal the end of the
\* stream nor change the overall count.
C23_InfiniteLoopHolds ==
    \A i \in DOMAIN music.loops :
        ( /\ hist.played
          /\ hist.n # 0
          /\ music.loops[i].initial_play_count = 0
          /\ WindowInRegion(music, music.loops[i])
          /\ FindLoop(music, src.pos) = i )
        => \A bytes \in Requests :
             \A o \in {WAV_GetSome(music, src, stream, bytes, TRUE, TRUE, TRUE)} :
                /\ ~o.done
                /\ o.music.loops[i].active
                /\ o.music.loops[i].current_play_count = 0
                /\ o.music.play_count = music.play_count
                /\ o.tell >= LoopStop(music, music.loops[i]) =>
                       o.src.pos = LoopStart(music, music.loops[i])
                /\ o.src.pos >= LoopStart(music, music.loops[i])
                /\ o.src.pos < LoopStop(music, music.loops[i])

InRegion(m, pos) == m.start <= pos /\ pos <= m.stop

\* C24: after a successful WAV_Play the cursor is at the region's start,
\* and a call of WAV_Seek with any position, or of WAV_GetSome, on a source
\* that does not fail leaves the cursor between the region's start and the
\* region's stop.
C24_CursorStaysInRegion ==
    (call = "WAV_Play" /\ ret = 0) =>
        /\ src.pos = music.start
        /\ \A position \in SeekPositions :
               \A o \in {WAV_Seek(music, src, position, TRUE)} :
                   InRegion(music, o.src.pos)
        /\ \A bytes \in Requests :
               \A o \in {WAV_GetSome(music, src, stream, bytes, TRUE, TRUE, TRUE)} :
                   InRegion(music, o.src.pos)

\* C25: in a run of WAV_Play(n) followed by calls of WAV_GetSome, a call
\* that restarts the region leaves every loop active with its remaining
\* count at its initial count, and in the pass over the region that a call
\* ends (by a restart or by the end of the stream) every loop with an
\* initial count k >= 1 and a window inside the region was rewound to its
\* start k - 1 times, that is, was traversed k times.
C25_EveryPassRepeatsTheLoops ==
    hist.played =>
        \A bytes \in Requests :
            \A o \in {WAV_GetSome(music, src, stream, bytes, TRUE, TRUE, TRUE)} :
                /\ o.restarted => LoopsReset(o.music)
                /\ (o.restarted \/ o.finished) =>
                       \A i \in DOMAIN music.loops :
                           ( /\ music.loops[i].initial_play_count >= 1
                             /\ WindowInRegion(music, music.loops[i]) )
                           => hist.loops[i] = music.loops[i].initial_play_count - 1

----------------------------------------------------------------------------
(* Termination of construction.  The container is MaxLoad bytes long, so   *)
(* that the chunk loops run into the end of the source; WAV_CreateFromRW   *)
(* is one call that runs until it returns.                                 *)

LoadInit ==
    /\ music = NewMusic
    /\ src = [pos |-> 0, len |-> MaxLoad]
    /\ stream = 0
    /\ call = "WAV_CreateFromRW"
    /\ ret = 0
    /\ done = FALSE
    /\ hist = HistInit(NewMusic)
    /\ pc = "new"
    /\ local = LocalInit
    /\ heap = {}
    /\ made = {}
    /\ result = "none"
    /\ buffer = NoBuffer

LoadSpec == LoadInit /\ [][ParseNext]_vars /\ WF_vars(ParseNext)

\* one iteration of the scan of an INFO list with its index at i: the index
\* of the next iteration
InfoScanNext(i, chunk_length, field) ==
    IF i = 4 /\ InfoTag(field.id) # "none"
    THEN read_meta_field({}, InfoTag(field.id), i, chunk_length, field, 4).i
    ELSE i + 1

\* the iterations of the scan from index i on
RECURSIVE InfoScanPasses(_, _, _)
InfoScanPasses(i, chunk_length, field) ==
    IF i < chunk_length - 4
    THEN 1 + InfoScanPasses(InfoScanNext(i, chunk_length, field), chunk_length, field)
    ELSE 0

InChunkLoop == pc \in {"wav", "aiff"}

\* C26: construction returns.  A pass of the chunk loop of LoadWAVMusic or
\* LoadAIFFMusic that stays in the loop has read one record and moved the
\* cursor forward by the record's header and its length of at least 1; at
\* the end of the source the reads yield 0 and the pass leaves the loop with
\* a record of length 0; the loops end by these conditions and not by the
\* model's bound on the records.  Every iteration of the scan of an INFO list
\* leaves the index greater than it was, and the scan makes no more
\* iterations than the chunk has bytes.
C26_ConstructionTerminates ==
    /\ <>(pc = "returned")
    /\ []((InChunkLoop /\ Avail(src, 8)) => local.nread < MaxChunks)
    /\ [][(InChunkLoop /\ pc' = pc) =>
             /\ local'.nread = local.nread + 1
             /\ local'.chunk.length > 0
             /\ src'.pos = src.pos + 8 + local'.chunk.length]_vars
    /\ [][(InChunkLoop /\ ~Avail(src, 8)) =>
             /\ pc' = "finish"
             /\ local'.chunk.length = 0]_vars
    /\ []((local.chunk.tag = "LIST" /\ local.chunk.length > 0
           /\ local.chunk.last >= 0 /\ local.chunk.list.marked) =>
             /\ \A i \in 4 .. local.chunk.length - 5 :
                    InfoScanNext(i, local.chunk.length, local.chunk.list) > i
             /\ InfoScanPasses(4, local.chunk.length, local.chunk.list)
                    <= local.chunk.length)

\* two records were read, and the third read met the end of the source
C26_Witness ==
    /\ pc = "finish"
    /\ local.path = "wav"
    /\ local.nread = 3
    /\ local.chunk = [tag |-> "", length |-> 0]
    /\ ~Avail(src, 8)

====
